---- MODULE Spec2Model ----
(***************************************************************************)
(* k8r checkup: the problem catalog, the detectors, the per-resource scan, *)
(* the report aggregation and the Run command, as a state machine.         *)
(*                                                                         *)
(* Conventions                                                             *)
(*   - a Go pointer that may be nil is a sequence of length 0 (nil) or 1;  *)
(*   - a pointer into Report.Resources is the index of the element;        *)
(*   - a Go map is a function; a map key that was never written is not in  *)
(*     its DOMAIN;                                                         *)
(*   - cfg.RestartThreshold is a 64-bit int, kept as [hi, lo] with value   *)
(*     hi * 2^16 + lo (0 <= lo < 2^16), so that int32(...) can truncate;   *)
(*   - a detector's return carries a fourth field, panic, TRUE when the    *)
(*     Go code dereferences a nil pointer (a run-time panic, exit 2).      *)
(***************************************************************************)
EXTENDS Integers, Sequences, FiniteSets, Bags, TLC

(***************************************************************************)
(* Bounds of the model.                                                    *)
(***************************************************************************)
\* container statuses of one pod, regular and init together
MaxContainers == 2
\* pods / autoscalers in the snapshot a run lists
MaxPods == 2
MaxHPAs == 1
\* records handed to ReportFromResources when it is checked on its own
MaxRecords == 3

\* cli.IntFlag "restart-threshold", Value: 3
DefaultRestartThreshold == 3

(***************************************************************************)
(* Helpers for Go values.                                                  *)
(***************************************************************************)
Nil == <<>>
Ptr(v) == <<v>>
Deref(p) == p[1]

Range(s) == {s[i] : i \in DOMAIN s}

RECURSIVE SeqsUpTo(_, _)
\* all sequences over S of length <= n
SeqsUpTo(S, n) ==
    IF n = 0 THEN {<<>>}
    ELSE LET shorter == SeqsUpTo(S, n - 1)
         IN  shorter \cup {Append(s, x) : s \in {t \in shorter : Len(t) = n - 1}, x \in S}

Digit(d) ==
    CASE d = 0 -> "0" [] d = 1 -> "1" [] d = 2 -> "2" [] d = 3 -> "3" [] d = 4 -> "4"
      [] d = 5 -> "5" [] d = 6 -> "6" [] d = 7 -> "7" [] d = 8 -> "8" [] d = 9 -> "9"

RECURSIVE Itoa(_)
\* fmt's %d of an int32
Itoa(n) ==
    IF n < 0 THEN "-" \o Itoa(-n)
    ELSE IF n < 10 THEN Digit(n)
    ELSE Itoa(n \div 10) \o Digit(n % 10)

\* a 64-bit int as hi * 2^16 + lo
Int64(hi, lo) == [hi |-> hi, lo |-> lo]

\* Go's int32(x) of a 64-bit int: the low 32 bits, two's complement
ToInt32(x) ==
    LET h == x.hi % 65536
    IN  (IF h >= 32768 THEN h - 65536 ELSE h) * 65536 + x.lo

\* n >= x for an int32 n and a 64-bit x, without truncation
GeInt64(n, x) ==
    LET nhi == n \div 65536
        nlo == n % 65536
    IN  nhi > x.hi \/ (nhi = x.hi /\ nlo >= x.lo)

\* m[key] of a Go map[string]string held as a set of <<key, value>> pairs
MapGet(m, key) ==
    IF \E p \in m : p[1] = key THEN (CHOOSE p \in m : p[1] = key)[2] ELSE ""

\* the least index of a set of indices, 0 if there is none: where a Go loop
\* that returns at its first match stops
FirstIndex(S) ==
    IF S = {} THEN 0 ELSE CHOOSE n \in S : \A m \in S : n <= m

(***************************************************************************)
(* Severity, Config.                                                       *)
(***************************************************************************)
SeverityError == 0
SeverityWarning == 1

Config(threshold) == [RestartThreshold |-> threshold]

\* the values the restart-threshold flag takes here: its default, and 2^32
RestartThresholds == {Int64(0, DefaultRestartThreshold), Int64(65536, 0)}

Configs == {Config(t) : t \in RestartThresholds}

(***************************************************************************)
(* Resources of the cluster: pods and horizontal pod autoscalers.          *)
(***************************************************************************)
Waiting(reason, message) == Ptr([Reason |-> reason, Message |-> message])
Terminated(reason, message, finishedAt) ==
    Ptr([Reason |-> reason, Message |-> message, FinishedAt |-> finishedAt])

ContainerStatus(name, waiting, terminated, last, ready, restarts) ==
    [Name |-> name,
     State |-> [Waiting |-> waiting, Terminated |-> terminated],
     LastTerminationState |-> [Terminated |-> last],
     Ready |-> ready,
     RestartCount |-> restarts]

LastError == Terminated("Error", "exit 1", "2023-01-01 00:00:00")
LastOOM == Terminated("OOMKilled", "oom", "2023-01-02 00:00:00")

\* the container statuses pods are built from
ContainerStatuses ==
    { ContainerStatus("app", Nil, Nil, Nil, TRUE, 0),
      ContainerStatus("app", Nil, Nil, Nil, FALSE, 0),
      ContainerStatus("app", Nil, Nil, LastError, TRUE, 5),
      ContainerStatus("app", Nil, Nil, LastOOM, TRUE, 5),
      ContainerStatus("app", Nil, Nil, LastOOM, TRUE, 0),
      ContainerStatus("app", Waiting("CrashLoopBackOff", "back-off"), Nil, LastError, FALSE, 5),
      ContainerStatus("app", Waiting("CrashLoopBackOff", "back-off"), Nil, Nil, FALSE, 0),
      ContainerStatus("app", Waiting("ImagePullBackOff", "pull"), Nil, Nil, FALSE, 0),
      ContainerStatus("ghost", Waiting("ErrImagePull", "pull"), Nil, Nil, FALSE, 0),
      ContainerStatus("app", Waiting("ContainerCreating", "creating"), Nil, Nil, FALSE, 0),
      ContainerStatus("app", Nil, Terminated("OOMKilled", "oom", "2023-01-03 00:00:00"), Nil, FALSE, 5),
      ContainerStatus("app", Nil, Terminated("OOMKilled", "oom", "2023-01-03 00:00:00"), LastOOM, FALSE, 0),
      ContainerStatus("app", Nil, Terminated("Error", "exit 1", "2023-01-03 00:00:00"), Nil, FALSE, 0) }

PodRunning == "Running"
PodPending == "Pending"
PodSucceeded == "Succeeded"
PodPhases == {PodRunning, PodPending, PodSucceeded}

\* metadata.labels, with and without the reporting_team label
LabelSets == {{}, {<<"reporting_team", "team-a">>}}

Pod(name, labels, phase, statuses, initStatuses) ==
    [Kind |-> "Pod",
     Namespace |-> "ns",
     Name |-> name,
     Labels |-> labels,
     Spec |-> [Containers |-> <<[Name |-> "app", Image |-> "app:1"]>>,
               InitContainers |-> <<[Name |-> "init", Image |-> "init:1"]>>],
     Status |-> [Phase |-> phase,
                 ContainerStatuses |-> statuses,
                 InitContainerStatuses |-> initStatuses]]

\* the ways to give a pod at most MaxContainers statuses, regular and init
StatusSplits ==
    UNION { { <<SubSeq(s, 1, k), SubSeq(s, k + 1, Len(s))>> : k \in 0..Len(s) } :
            s \in SeqsUpTo(ContainerStatuses, MaxContainers) }

\* every pod with at most MaxContainers container statuses
PodObjects ==
    { Pod("web", l, ph, c[1], c[2]) : l \in LabelSets, ph \in PodPhases, c \in StatusSplits }

HorizontalPodAutoscaler(name, labels, maxReplicas, currentReplicas) ==
    [Kind |-> "HPA",
     Namespace |-> "ns",
     Name |-> name,
     Labels |-> labels,
     Spec |-> [MaxReplicas |-> maxReplicas],
     Status |-> [CurrentReplicas |-> currentReplicas]]

ReplicaCounts == {9, 10}

HPAObjects ==
    { HorizontalPodAutoscaler("scaler", l, m, c) :
        l \in LabelSets, m \in ReplicaCounts, c \in ReplicaCounts }

\* runtime.Object: what a Detector is handed
Objects == PodObjects \cup HPAObjects

\* obj.(*corev1.Pod) and obj.(*v1.HorizontalPodAutoscaler): the ok of the type assertion
IsPod(obj) == obj.Kind = "Pod"
IsHPA(obj) == obj.Kind = "HPA"

(***************************************************************************)
(* Detectors.  Each returns (resourceSpecificReason, warning, isOccurring).*)
(***************************************************************************)
Return(reason, warning, isOccurring) ==
    [reason |-> reason, warning |-> warning, isOccurring |-> isOccurring, panic |-> FALSE]

\* a nil pointer dereference: the goroutine panics and nothing is returned
NilPointerPanic ==
    [reason |-> "", warning |-> FALSE, isOccurring |-> FALSE, panic |-> TRUE]

NotOccurring == Return("", FALSE, FALSE)

isCrashLoopBackoff(cs) ==
    cs.State.Waiting # Nil /\ Deref(cs.State.Waiting).Reason = "CrashLoopBackOff"

\* the return inside either loop of the crash loop detector:
\* cs.LastTerminationState.Terminated.Message is read without a nil check
CrashLoopReturn(prefix, cs) ==
    IF cs.LastTerminationState.Terminated = Nil
    THEN NilPointerPanic
    ELSE Return(prefix \o cs.Name \o " in a crash loop backoff state: "
                  \o Deref(cs.LastTerminationState.Terminated).Message,
                FALSE, TRUE)

DetectPodCrashLoopBackOff(obj, cfg) ==
    IF ~IsPod(obj) THEN NotOccurring
    ELSE LET css == obj.Status.ContainerStatuses
             ics == obj.Status.InitContainerStatuses
             i == FirstIndex({n \in DOMAIN css : isCrashLoopBackoff(css[n])})
             j == FirstIndex({n \in DOMAIN ics : isCrashLoopBackoff(ics[n])})
         IN  IF i # 0 THEN CrashLoopReturn("Container ", css[i])
             ELSE IF j # 0 THEN CrashLoopReturn("Init container ", ics[j])
             ELSE NotOccurring

NotReadyStatus(cs) == ~cs.Ready

\* the not-ready detector with the ok of the type assertion ignored: the nil
\* *corev1.Pod is dereferenced when the resource is of another kind
DetectPodNotReadyUnchecked(obj, cfg) ==
    IF ~IsPod(obj) THEN NilPointerPanic
    ELSE IF obj.Status.Phase # PodRunning THEN NotOccurring
    ELSE LET css == obj.Status.ContainerStatuses
             i == FirstIndex({n \in DOMAIN css : NotReadyStatus(css[n])})
         IN  IF i # 0
             THEN Return("Container " \o css[i].Name \o " is not ready", FALSE, TRUE)
             ELSE NotOccurring

DetectPodNotReady(obj, cfg) ==
    IF ~IsPod(obj) THEN NotOccurring
    ELSE IF obj.Status.Phase # PodRunning THEN NotOccurring
    ELSE LET css == obj.Status.ContainerStatuses
             i == FirstIndex({n \in DOMAIN css : NotReadyStatus(css[n])})
         IN  IF i # 0
             THEN Return("Container " \o css[i].Name \o " is not ready", FALSE, TRUE)
             ELSE NotOccurring

isImagePullBackOff(cs) ==
    cs.State.Waiting # Nil /\
    (Deref(cs.State.Waiting).Reason = "ImagePullBackOff" \/
     Deref(cs.State.Waiting).Reason = "ErrImagePull")

getImageForContainerStatus(pod, isInitContainer, cs) ==
    LET sl == IF isInitContainer THEN pod.Spec.InitContainers ELSE pod.Spec.Containers
        SameName(c) == c.Name = cs.Name
        i == FirstIndex({n \in DOMAIN sl : SameName(sl[n])})
    IN  IF i = 0 THEN "unknown" ELSE sl[i].Image

DetectPodImagePullBackOff(obj, cfg) ==
    IF ~IsPod(obj) THEN NotOccurring
    ELSE LET css == obj.Status.ContainerStatuses
             ics == obj.Status.InitContainerStatuses
             i == FirstIndex({n \in DOMAIN css : isImagePullBackOff(css[n])})
             j == FirstIndex({n \in DOMAIN ics : isImagePullBackOff(ics[n])})
         IN  IF i # 0
             THEN Return("Container " \o css[i].Name \o " is failing to pull its image ("
                           \o getImageForContainerStatus(obj, FALSE, css[i]) \o ")",
                         FALSE, TRUE)
             ELSE IF j # 0
             THEN Return("Container " \o ics[j].Name \o " is failing to pull its image ("
                           \o getImageForContainerStatus(obj, TRUE, ics[j]) \o ")",
                         FALSE, TRUE)
             ELSE NotOccurring

CurrentlyOOMKilled(cs) ==
    cs.State.Terminated # Nil /\ Deref(cs.State.Terminated).Reason = "OOMKilled"

RecentlyOOMKilled(cs) ==
    cs.LastTerminationState.Terminated # Nil /\
    Deref(cs.LastTerminationState.Terminated).Reason = "OOMKilled"

OOMKilledStatus(cs) == CurrentlyOOMKilled(cs) \/ RecentlyOOMKilled(cs)

DetectPodOOMKilled(obj, cfg) ==
    IF ~IsPod(obj) THEN NotOccurring
    ELSE LET css == obj.Status.ContainerStatuses
             i == FirstIndex({n \in DOMAIN css : OOMKilledStatus(css[n])})
         IN  IF i = 0 THEN NotOccurring
             ELSE IF CurrentlyOOMKilled(css[i])
             THEN Return("Container " \o css[i].Name
                           \o " was killed because it ran out of memory",
                         FALSE, TRUE)
             ELSE Return("Container " \o css[i].Name
                           \o " was recently killed because it ran out of memory: "
                           \o Deref(css[i].LastTerminationState.Terminated).FinishedAt,
                         TRUE, TRUE)

IsWaiting(cs) == cs.State.Waiting # Nil

DetectPodPending(obj, cfg) ==
    IF ~IsPod(obj) THEN NotOccurring
    ELSE IF obj.Status.Phase # PodPending THEN NotOccurring
    ELSE LET css == obj.Status.ContainerStatuses
             ics == obj.Status.InitContainerStatuses
             i == FirstIndex({n \in DOMAIN css : IsWaiting(css[n])})
             j == FirstIndex({n \in DOMAIN ics : IsWaiting(ics[n])})
         IN  IF i # 0
             THEN Return("Container " \o css[i].Name \o " is pending: "
                           \o Deref(css[i].State.Waiting).Message, FALSE, TRUE)
             ELSE IF j # 0
             THEN Return("Init container " \o ics[j].Name \o " is pending: "
                           \o Deref(ics[j].State.Waiting).Message, FALSE, TRUE)
             ELSE NotOccurring

\* the autoscaler detector comparing with >= instead of ==
DetectMaxedOutHPAsAtLeast(obj, cfg) ==
    IF ~IsHPA(obj) THEN NotOccurring
    ELSE IF obj.Status.CurrentReplicas >= obj.Spec.MaxReplicas
    THEN Return(obj.Name \o " has " \o Itoa(obj.Status.CurrentReplicas) \o "/"
                  \o Itoa(obj.Spec.MaxReplicas) \o " replicas", TRUE, TRUE)
    ELSE NotOccurring

DetectMaxedOutHPAs(obj, cfg) ==
    IF ~IsHPA(obj) THEN NotOccurring
    ELSE IF obj.Spec.MaxReplicas = obj.Status.CurrentReplicas
    THEN Return(obj.Name \o " has " \o Itoa(obj.Status.CurrentReplicas) \o "/"
                  \o Itoa(obj.Spec.MaxReplicas) \o " replicas", TRUE, TRUE)
    ELSE NotOccurring

DetectHighRestarts(obj, cfg) ==
    IF ~IsPod(obj) THEN NotOccurring
    ELSE LET css == obj.Status.ContainerStatuses
             AboveThreshold(cs) == cs.RestartCount >= ToInt32(cfg.RestartThreshold)
             i == FirstIndex({n \in DOMAIN css : AboveThreshold(css[n])})
         IN  IF i # 0
             THEN Return("Container " \o obj.Name \o " has restarted "
                           \o Itoa(css[i].RestartCount) \o " time(s)", TRUE, TRUE)
             ELSE NotOccurring

(***************************************************************************)
(* The catalog.                                                            *)
(***************************************************************************)
Problem(id, shortDescription, helpURL) ==
    [ID |-> id, ShortDescription |-> shortDescription, HelpURL |-> helpURL]

ProblemPodCrashLoopBackOff ==
    Problem("PodCrashLoopBackOff",
            "A pod is in a crash loop backoff state, meaning it is crashing repeatedly", "")
ProblemPodNotReady ==
    Problem("PodNotReady", "A pod is not ready which can indicate a problem with the pod", "")
ProblemPodImagePullBackOff ==
    Problem("PodImagePullBackOff",
            "A pod is in a image pull backoff state, meaning it is unable to pull the image", "")
ProblemPodOOMKilled ==
    Problem("PodOOMKilled", "A pod was killed because it ran out of memory recently", "")
ProblemPodPending ==
    Problem("PodPending", "A pod is pending", "")
ProblemMaxedOutHPAs ==
    Problem("MaxedOutHPAs", "A pod's HPAs current replicas is equal to its max",
            "https://github.com/Ashvin-Ranjan/k8r/wiki/MaxedOutHPAs")
ProblemHighRestarts ==
    Problem("HighRestarts", "A pod keeps restarting which can indicate a problem",
            "https://github.com/Ashvin-Ranjan/k8r/wiki/HighRestarts")

\* problem.Detector(ctx, obj, cfg): the Detector field of each Problem
Detector(problem, obj, cfg) ==
    CASE problem.ID = "PodCrashLoopBackOff" -> DetectPodCrashLoopBackOff(obj, cfg)
      [] problem.ID = "PodNotReady" -> DetectPodNotReady(obj, cfg)
      [] problem.ID = "PodImagePullBackOff" -> DetectPodImagePullBackOff(obj, cfg)
      [] problem.ID = "PodOOMKilled" -> DetectPodOOMKilled(obj, cfg)
      [] problem.ID = "PodPending" -> DetectPodPending(obj, cfg)
      [] problem.ID = "MaxedOutHPAs" -> DetectMaxedOutHPAs(obj, cfg)
      [] problem.ID = "HighRestarts" -> DetectHighRestarts(obj, cfg)

enabledPodProblems ==
    << ProblemPodCrashLoopBackOff, ProblemPodNotReady, ProblemPodImagePullBackOff,
       ProblemPodOOMKilled, ProblemHighRestarts >>

enabledHPAProblems == << ProblemMaxedOutHPAs >>

\* the catalog of the report without the autoscaler entries
enabledProblemsPodsOnly == enabledPodProblems

enabledProblems == enabledPodProblems \o enabledHPAProblems

\* every Problem value the package declares, enabled or not
DeclaredProblems == Range(enabledProblems) \cup {ProblemPodPending}

(***************************************************************************)
(* The scanner: getPodsWithProblems, getHPAsWithProblems.                  *)
(***************************************************************************)
Resource(name, owner, type, problemID, problemDetails, warning) ==
    [Name |-> name, Owner |-> owner, Type |-> type, ProblemID |-> problemID,
     ProblemDetails |-> problemDetails, Warning |-> warning]

\* defaultProblem of both scan functions
defaultProblem(obj, type) ==
    Resource(obj.Namespace \o "/" \o obj.Name, MapGet(obj.Labels, "reporting_team"),
             type, "", "", FALSE)

RECURSIVE scanLoop(_, _, _, _, _, _)
\* the loop over the enabled problems of one kind, from entry k on.
\* calls counts the detectors invoked; a panic unwinds out of the function.
scanLoop(enabled, k, obj, cfg, default, problems) ==
    IF k > Len(enabled)
    THEN [problems |-> problems, is |-> Len(problems) > 0, panic |-> FALSE,
          calls |-> Len(enabled)]
    ELSE LET r == Detector(enabled[k], obj, cfg)
         IN  IF r.panic
             THEN [problems |-> <<>>, is |-> FALSE, panic |-> TRUE, calls |-> k]
             ELSE IF ~r.isOccurring
             THEN scanLoop(enabled, k + 1, obj, cfg, default, problems)
             ELSE scanLoop(enabled, k + 1, obj, cfg, default,
                           Append(problems,
                                  [default EXCEPT !.ProblemID = enabled[k].ID,
                                                  !.ProblemDetails = r.reason,
                                                  !.Warning = r.warning]))

getPodsWithProblems(pod, cfg) ==
    scanLoop(enabledPodProblems, 1, pod, cfg, defaultProblem(pod, "pod"), <<>>)

getHPAsWithProblems(hpa, cfg) ==
    scanLoop(enabledHPAProblems, 1, hpa, cfg, defaultProblem(hpa, "HPA"), <<>>)

(***************************************************************************)
(* The report: ReportFromResources, GetProblemByID, ByProblem, BySeverity. *)
(***************************************************************************)
EmptyMap == [k \in {} |-> <<>>]

\* MapAppend with the slice replaced instead of appended to
MapAppendOverwrite(m, key, v) ==
    IF key \in DOMAIN m
    THEN [m EXCEPT ![key] = <<v>>]
    ELSE (key :> <<v>>) @@ m

\* m[key] = append(m[key], v) of a Go map of slices
MapAppend(m, key, v) ==
    IF key \in DOMAIN m
    THEN [m EXCEPT ![key] = Append(@, v)]
    ELSE (key :> <<v>>) @@ m

RECURSIVE reportLoop(_, _, _, _)
\* the loop of ReportFromResources over resources, from index n on
reportLoop(resources, n, problemHM, problems) ==
    IF n > Len(resources) THEN problems
    ELSE LET id == resources[n].ProblemID
             SameID(enabled) == enabled.ID = id
             e == FirstIndex({k \in DOMAIN enabledProblems : SameID(enabledProblems[k])})
         IN  IF id \in problemHM
             THEN reportLoop(resources, n + 1, problemHM, problems)
             ELSE IF e # 0
             THEN reportLoop(resources, n + 1, problemHM \cup {enabledProblems[e].ID},
                             Append(problems, enabledProblems[e]))
             ELSE reportLoop(resources, n + 1, problemHM, problems)

\* ReportFromResources collecting the problems in catalog order
ReportFromResourcesCatalogOrder(resources) ==
    LET Present(enabled) == \E n \in DOMAIN resources : resources[n].ProblemID = enabled.ID
    IN  [Problems |-> SelectSeq(enabledProblems, Present), Resources |-> resources]

ReportFromResources(resources) ==
    [Problems |-> reportLoop(resources, 1, {}, <<>>), Resources |-> resources]

\* the index into r.Problems of the Problem returned, 0 for nil
GetProblemByID(r, id) ==
    LET SameID(problem) == problem.ID = id
    IN  FirstIndex({n \in DOMAIN r.Problems : SameID(r.Problems[n])})

RECURSIVE byProblemLoop(_, _, _, _)
\* the nested loops of ByProblem, at problem a and resource b
byProblemLoop(r, a, b, rtrn) ==
    IF a > Len(r.Problems) THEN rtrn
    ELSE IF b > Len(r.Resources) THEN byProblemLoop(r, a + 1, 1, rtrn)
    ELSE byProblemLoop(r, a, b + 1,
                       IF r.Resources[b].ProblemID = r.Problems[a].ID
                       THEN MapAppend(rtrn, r.Problems[a].ID, b)
                       ELSE rtrn)

ByProblem(r) == byProblemLoop(r, 1, 1, EmptyMap)

RECURSIVE bySeverityLoop(_, _, _, _)
\* the nested loops of BySeverity, at problem a and resource b
bySeverityLoop(r, a, b, rtrn) ==
    IF a > Len(r.Problems) THEN rtrn
    ELSE IF b > Len(r.Resources) THEN bySeverityLoop(r, a + 1, 1, rtrn)
    ELSE bySeverityLoop(r, a, b + 1,
                        IF r.Resources[b].ProblemID = r.Problems[a].ID
                        THEN IF ~r.Resources[b].Warning
                             THEN [rtrn EXCEPT ![SeverityError] =
                                       MapAppend(@, r.Problems[a].ID, b)]
                             ELSE [rtrn EXCEPT ![SeverityWarning] =
                                       MapAppend(@, r.Problems[a].ID, b)]
                        ELSE rtrn)

\* BySeverity with the two branches of the routing exchanged
BySeveritySwapped(r) ==
    LET sev == bySeverityLoop(r, 1, 1,
                              (SeverityError :> EmptyMap) @@ (SeverityWarning :> EmptyMap))
    IN  (SeverityError :> sev[SeverityWarning]) @@ (SeverityWarning :> sev[SeverityError])

BySeverity(r) ==
    bySeverityLoop(r, 1, 1, (SeverityError :> EmptyMap) @@ (SeverityWarning :> EmptyMap))

(***************************************************************************)
(* What Run prints (part of it): the groups and the help index.  The Go    *)
(* maps are ranged over in no fixed order, so both are held as sets.       *)
(***************************************************************************)
resourceMessage(r) ==
    r.Name \o (IF r.ProblemDetails # "" THEN ":\t" \o r.ProblemDetails ELSE "")
           \o (IF r.Owner # "" THEN " (owned by " \o r.Owner \o ")" ELSE "")

\* one printed problem of one severity, with its resource lines
renderGroup(rep, severity, id, resources) ==
    LET p == rep.Problems[GetProblemByID(rep, id)]
    IN  [color |-> IF severity = SeverityWarning THEN "HiYellow" ELSE "HiRed",
         title |-> id \o ": " \o p.ShortDescription,
         occurrences |-> Len(resources),
         plural |-> IF Len(resources) > 1 THEN "s" ELSE "",
         lines |-> [n \in DOMAIN resources |-> resourceMessage(rep.Resources[resources[n]])]]

\* the loop over bySeverity; a key GetProblemByID does not find is skipped
renderGroups(rep, sev) ==
    { renderGroup(rep, k[1], k[2], sev[k[1]][k[2]]) :
        k \in { x \in UNION { {s} \X DOMAIN sev[s] : s \in DOMAIN sev } :
                  GetProblemByID(rep, x[2]) # 0 } }

\* the loop over byProblem
renderHelp(rep, byP) ==
    { [id |-> id,
       helpURL |-> LET p == rep.Problems[GetProblemByID(rep, id)]
                   IN  IF p.HelpURL = ""
                       THEN "https://github.com/getoutreach/devenv/wiki/" \o id
                       ELSE p.HelpURL] :
        id \in { x \in DOMAIN byP : GetProblemByID(rep, x) # 0 } }

\* errors.Wrap(err, message)
Wrap(e, message) == message \o ": " \o e

(***************************************************************************)
(* State.                                                                  *)
(***************************************************************************)
VARIABLES
    pc,                \* where Run (or the operation under check) stands
    cfg,               \* o.cfg
    pods,              \* pods.Items
    HPAs,              \* HPAs.Items
    i,                 \* index of the loop over pods.Items
    j,                 \* index of the loop over HPAs.Items
    resourceProblems,  \* the records collected so far
    report,            \* nil or the Report
    byProblem,         \* nil or report.ByProblem()
    bySeverity,        \* nil or report.BySeverity()
    stdout,            \* what has been printed
    err,               \* the error Run returned, "" for none
    exitStatus,        \* nil while the process runs, else its exit status
    detectorCalls,     \* how many times a Detector has been invoked
    obj,               \* the resource handed to a detector or a scan on its own
    ret                \* nil or what that call returned

vars ==
    << pc, cfg, pods, HPAs, i, j, resourceProblems, report, byProblem, bySeverity,
       stdout, err, exitStatus, detectorCalls, obj, ret >>

NoOutput == [summary |-> "", groups |-> {}, help |-> {}]

\* the pods and autoscalers a listed snapshot is drawn from
RunContainerStatuses ==
    { ContainerStatus("app", Nil, Nil, Nil, TRUE, 0),
      ContainerStatus("app", Nil, Nil, Nil, FALSE, 0),
      ContainerStatus("app", Nil, Nil, LastOOM, TRUE, 5),
      ContainerStatus("app", Waiting("CrashLoopBackOff", "back-off"), Nil, LastError, FALSE, 5),
      ContainerStatus("app", Waiting("CrashLoopBackOff", "back-off"), Nil, Nil, FALSE, 0),
      ContainerStatus("app", Waiting("ImagePullBackOff", "pull"), Nil, Nil, FALSE, 0),
      ContainerStatus("app", Nil, Terminated("OOMKilled", "oom", "2023-01-03 00:00:00"), Nil, FALSE, 0) }

RunPods ==
    { Pod("web", {<<"reporting_team", "team-a">>}, PodRunning, <<c>>, <<>>) :
        c \in RunContainerStatuses }

RunHPAs ==
    { HorizontalPodAutoscaler("scaler", {}, 10, c) : c \in ReplicaCounts }

(***************************************************************************)
(* Run.                                                                    *)
(***************************************************************************)
InitRun ==
    /\ pc = "getKubeClient"
    /\ cfg \in Configs
    /\ pods = <<>>
    /\ HPAs = <<>>
    /\ i = 1
    /\ j = 1
    /\ resourceProblems = <<>>
    /\ report = Nil
    /\ byProblem = Nil
    /\ bySeverity = Nil
    /\ stdout = NoOutput
    /\ err = ""
    /\ exitStatus = Nil
    /\ detectorCalls = 0
    /\ obj = Nil
    /\ ret = Nil

\* the error is recorded but Run goes on to the scan
ReturnErrorAndGoOn(e, message) ==
    /\ pc' = "scanning"
    /\ err' = Wrap(e, message)

\* return errors.Wrap(err, message)
ReturnError(e, message) ==
    /\ pc' = "returned"
    /\ err' = Wrap(e, message)

\* k, err := kube.GetKubeClient()
GetKubeClient ==
    /\ pc = "getKubeClient"
    /\ \/ /\ pc' = "listPods"
          /\ err' = err
       \/ ReturnError("no kubeconfig", "failed to get kubernetes client (is the devenv running?)")
    /\ UNCHANGED << cfg, pods, HPAs, i, j, resourceProblems, report, byProblem, bySeverity,
                    stdout, exitStatus, detectorCalls, obj, ret >>

\* pods, err := k.CoreV1().Pods(metav1.NamespaceAll).List(...)
ListPods ==
    /\ pc = "listPods"
    /\ \/ /\ \E items \in SeqsUpTo(RunPods, MaxPods) : pods' = items
          /\ pc' = "listHPAs"
          /\ err' = err
       \/ /\ ReturnError("connection refused", "failed to list pods")
          /\ pods' = pods
    /\ UNCHANGED << cfg, HPAs, i, j, resourceProblems, report, byProblem, bySeverity,
                    stdout, exitStatus, detectorCalls, obj, ret >>

\* HPAs, err := k.AutoscalingV1().HorizontalPodAutoscalers(...).List(...),
\* then "Checking for problems ... " and resourceProblems := []Resource{}
ListHPAs ==
    /\ pc = "listHPAs"
    /\ \/ /\ \E items \in SeqsUpTo(RunHPAs, MaxHPAs) : HPAs' = items
          /\ pc' = "scanning"
          /\ err' = err
          /\ stdout' = [stdout EXCEPT !.summary = "Checking for problems ... "]
       \/ /\ ReturnError("connection refused", "failed to list hpas")
          /\ HPAs' = HPAs
          /\ stdout' = stdout
    /\ UNCHANGED << cfg, pods, i, j, resourceProblems, report, byProblem, bySeverity,
                    exitStatus, detectorCalls, obj, ret >>

\* a panic leaves Run: the Go runtime prints the trace and exits with status 2
Panic ==
    /\ pc' = "panicked"
    /\ exitStatus' = Ptr(2)

\* one turn of the loop over pods.Items
ScanPod ==
    /\ pc = "scanning"
    /\ i <= Len(pods)
    /\ LET rs == getPodsWithProblems(pods[i], cfg)
       IN  /\ detectorCalls' = detectorCalls + rs.calls
           /\ \/ /\ rs.panic
                 /\ Panic
                 /\ UNCHANGED << i, resourceProblems >>
              \/ /\ ~rs.panic
                 /\ resourceProblems' = IF rs.is THEN resourceProblems \o rs.problems
                                        ELSE resourceProblems
                 /\ i' = i + 1
                 /\ UNCHANGED << pc, exitStatus >>
    /\ UNCHANGED << cfg, pods, HPAs, j, report, byProblem, bySeverity, stdout, err, obj, ret >>

\* one turn of the loop over HPAs.Items
ScanHPA ==
    /\ pc = "scanning"
    /\ i > Len(pods)
    /\ j <= Len(HPAs)
    /\ LET rs == getHPAsWithProblems(HPAs[j], cfg)
       IN  /\ detectorCalls' = detectorCalls + rs.calls
           /\ \/ /\ rs.panic
                 /\ Panic
                 /\ UNCHANGED << j, resourceProblems >>
              \/ /\ ~rs.panic
                 /\ resourceProblems' = IF rs.is THEN resourceProblems \o rs.problems
                                        ELSE resourceProblems
                 /\ j' = j + 1
                 /\ UNCHANGED << pc, exitStatus >>
    /\ UNCHANGED << cfg, pods, HPAs, i, report, byProblem, bySeverity, stdout, err, obj, ret >>

ScanDone == pc = "scanning" /\ i > Len(pods) /\ j > Len(HPAs)

\* "done"; len(resourceProblems) == 0: "Everything looks good", return nil.
\* Run's caller then leaves main normally: exit status 0.
AllClear ==
    /\ ScanDone
    /\ Len(resourceProblems) = 0
    /\ stdout' = [stdout EXCEPT !.summary = "Everything looks good"]
    /\ pc' = "returned"
    /\ exitStatus' = Ptr(0)
    /\ UNCHANGED << cfg, pods, HPAs, i, j, resourceProblems, report, byProblem, bySeverity,
                    err, detectorCalls, obj, ret >>

\* "done"; "Problems found"; the report and its two indices
BuildReport ==
    /\ ScanDone
    /\ Len(resourceProblems) # 0
    /\ stdout' = [stdout EXCEPT !.summary = "Problems found"]
    /\ LET rep == ReportFromResources(resourceProblems)
       IN  /\ report' = Ptr(rep)
           /\ byProblem' = Ptr(ByProblem(rep))
           /\ bySeverity' = Ptr(BySeverity(rep))
    /\ pc' = "render"
    /\ UNCHANGED << cfg, pods, HPAs, i, j, resourceProblems, err, exitStatus,
                    detectorCalls, obj, ret >>

\* the two printing loops
Render ==
    /\ pc = "render"
    /\ stdout' = [stdout EXCEPT
                    !.groups = renderGroups(Deref(report), Deref(bySeverity)),
                    !.help = renderHelp(Deref(report), Deref(byProblem))]
    /\ pc' = "exit"
    /\ UNCHANGED << cfg, pods, HPAs, i, j, resourceProblems, report, byProblem, bySeverity,
                    err, exitStatus, detectorCalls, obj, ret >>

\* os.Exit(1)
Exit ==
    /\ pc = "exit"
    /\ exitStatus' = Ptr(1)
    /\ pc' = "exited"
    /\ UNCHANGED << cfg, pods, HPAs, i, j, resourceProblems, report, byProblem, bySeverity,
                    stdout, err, detectorCalls, obj, ret >>

Next ==
    \/ GetKubeClient
    \/ ListPods
    \/ ListHPAs
    \/ ScanPod
    \/ ScanHPA
    \/ AllClear
    \/ BuildReport
    \/ Render
    \/ Exit

Spec == InitRun /\ [][Next]_vars

(***************************************************************************)
(* The scanner and the detectors on one resource: the resource and the     *)
(* Config are drawn in the initial state, one call is made on them.        *)
(***************************************************************************)
InitScan ==
    /\ pc = "scan.input"
    /\ cfg \in Configs
    /\ obj \in {Ptr(o) : o \in Objects}
    /\ pods = <<>>
    /\ HPAs = <<>>
    /\ i = 1
    /\ j = 1
    /\ resourceProblems = <<>>
    /\ report = Nil
    /\ byProblem = Nil
    /\ bySeverity = Nil
    /\ stdout = NoOutput
    /\ err = ""
    /\ exitStatus = Nil
    /\ detectorCalls = 0
    /\ ret = Nil

\* problem.Detector(ctx, obj, cfg) for any declared Problem and any resource
CallDetector ==
    /\ pc = "scan.input"
    /\ \E problem \in DeclaredProblems :
          /\ ret' = Ptr([problem |-> problem.ID, result |-> Detector(problem, Deref(obj), cfg)])
          /\ pc' = "scan.detected"
    /\ detectorCalls' = detectorCalls + 1
    /\ UNCHANGED << cfg, pods, HPAs, i, j, resourceProblems, report, byProblem, bySeverity,
                    stdout, err, exitStatus, obj >>

\* o.getPodsWithProblems(ctx, pod)
CallGetPodsWithProblems ==
    /\ pc = "scan.input"
    /\ IsPod(Deref(obj))
    /\ LET rs == getPodsWithProblems(Deref(obj), cfg)
       IN  /\ ret' = Ptr(rs)
           /\ detectorCalls' = detectorCalls + rs.calls
    /\ pc' = "scan.pod"
    /\ UNCHANGED << cfg, pods, HPAs, i, j, resourceProblems, report, byProblem, bySeverity,
                    stdout, err, exitStatus, obj >>

\* o.getHPAsWithProblems(ctx, hpa)
CallGetHPAsWithProblems ==
    /\ pc = "scan.input"
    /\ IsHPA(Deref(obj))
    /\ LET rs == getHPAsWithProblems(Deref(obj), cfg)
       IN  /\ ret' = Ptr(rs)
           /\ detectorCalls' = detectorCalls + rs.calls
    /\ pc' = "scan.hpa"
    /\ UNCHANGED << cfg, pods, HPAs, i, j, resourceProblems, report, byProblem, bySeverity,
                    stdout, err, exitStatus, obj >>

NextScan ==
    \/ CallDetector
    \/ CallGetPodsWithProblems
    \/ CallGetHPAsWithProblems

SpecScan == InitScan /\ [][NextScan]_vars

(***************************************************************************)
(* The report on any list of records: the list is drawn in the initial     *)
(* state, the report is built from it and its two indices are derived.     *)
(***************************************************************************)
\* IDs of records: two of the catalog, one declared but not enabled, one unknown
RecordProblemIDs == {"PodNotReady", "MaxedOutHPAs", "PodPending", "Unknown"}

RecordPool ==
    { Resource(n, "", "pod", id, "", w) :
        n \in {"ns/a", "ns/b"}, id \in RecordProblemIDs, w \in BOOLEAN }

InitReport ==
    /\ pc = "report.input"
    /\ resourceProblems \in SeqsUpTo(RecordPool, MaxRecords)
    /\ cfg = Nil
    /\ obj = Nil
    /\ pods = <<>>
    /\ HPAs = <<>>
    /\ i = 1
    /\ j = 1
    /\ report = Nil
    /\ byProblem = Nil
    /\ bySeverity = Nil
    /\ stdout = NoOutput
    /\ err = ""
    /\ exitStatus = Nil
    /\ detectorCalls = 0
    /\ ret = Nil

\* report := ReportFromResources(resourceProblems)
CallReportFromResources ==
    /\ pc = "report.input"
    /\ report' = Ptr(ReportFromResources(resourceProblems))
    /\ pc' = "report.built"
    /\ UNCHANGED << cfg, pods, HPAs, i, j, resourceProblems, byProblem, bySeverity,
                    stdout, err, exitStatus, detectorCalls, obj, ret >>

\* ByProblem() grouping by reordering r.Resources in place before indexing
CallByProblemReordering ==
    /\ pc = "report.built"
    /\ LET r == Deref(report)
           n == Len(r.Resources)
           reordered == [r EXCEPT !.Resources = [k \in 1..n |-> r.Resources[n + 1 - k]]]
       IN  /\ report' = Ptr(reordered)
           /\ byProblem' = Ptr(ByProblem(reordered))
    /\ UNCHANGED << pc, cfg, pods, HPAs, i, j, resourceProblems, bySeverity,
                    stdout, err, exitStatus, detectorCalls, obj, ret >>

\* byProblem := report.ByProblem(), any number of times
CallByProblem ==
    /\ pc = "report.built"
    /\ byProblem' = Ptr(ByProblem(Deref(report)))
    /\ UNCHANGED << pc, cfg, pods, HPAs, i, j, resourceProblems, report, bySeverity,
                    stdout, err, exitStatus, detectorCalls, obj, ret >>

\* bySeverity := report.BySeverity(), any number of times
CallBySeverity ==
    /\ pc = "report.built"
    /\ bySeverity' = Ptr(BySeverity(Deref(report)))
    /\ UNCHANGED << pc, cfg, pods, HPAs, i, j, resourceProblems, report, byProblem,
                    stdout, err, exitStatus, detectorCalls, obj, ret >>

NextReport ==
    \/ CallReportFromResources
    \/ CallByProblem
    \/ CallBySeverity

SpecReport == InitReport /\ [][NextReport]_vars

(***************************************************************************)
(* Properties of the report (SpecReport).                                  *)
(***************************************************************************)
CatalogIDs == {enabledProblems[e].ID : e \in DOMAIN enabledProblems}

\* the records of a list whose ProblemID resolves in the catalog
Resolvable(rs) == {n \in DOMAIN rs : rs[n].ProblemID \in CatalogIDs}

\* the index at which an ID first appears among the records
FirstAppearance(rs, id) ==
    CHOOSE n \in DOMAIN rs :
        rs[n].ProblemID = id /\ \A m \in 1..(n - 1) : rs[m].ProblemID # id

\* the places (key, position) of a map of slices
Places(m) == UNION { {id} \X DOMAIN m[id] : id \in DOMAIN m }

\* the multiset of the records of a sequence
BagOfSeq(rs) ==
    [x \in Range(rs) |-> Cardinality({n \in DOMAIN rs : rs[n] = x})]

\* the multiset of the records the buckets of a map of slices point to
BagOfBuckets(m, rs) ==
    [x \in {rs[m[pl[1]][pl[2]]] : pl \in Places(m)} |->
        Cardinality({pl \in Places(m) : rs[m[pl[1]][pl[2]]] = x})]

\* the buckets of both severities as one map of slices, keyed by (severity, id)
SeverityBuckets(sev) ==
    [k \in UNION { {s} \X DOMAIN sev[s] : s \in DOMAIN sev } |-> sev[k[1]][k[2]]]

\* the records among rs that resolve, in order
ResolvableRecords(rs) ==
    LET Resolves(r) == r.ProblemID \in CatalogIDs
    IN  SelectSeq(rs, Resolves)

\* C1: the Problems of a report built from any list of records are the catalog
\* entries of the distinct resolvable ProblemIDs of the records, each once, in
\* order of first appearance; no Problem has an ID no record carries; records
\* with an ID outside the catalog add nothing; Resources is the input list.
C1_ProblemsFirstAppearance ==
    report # Nil =>
        LET rs == resourceProblems
            P == Deref(report).Problems
        IN  /\ Deref(report).Resources = rs
            /\ \A a \in DOMAIN P :
                  /\ P[a] \in Range(enabledProblems)
                  /\ \E n \in DOMAIN rs : rs[n].ProblemID = P[a].ID
            /\ \A n \in Resolvable(rs) :
                  Cardinality({a \in DOMAIN P : P[a].ID = rs[n].ProblemID}) = 1
            /\ \A a, b \in DOMAIN P :
                  a < b => FirstAppearance(rs, P[a].ID) < FirstAppearance(rs, P[b].ID)

\* a report of three records, one of them a repeat or unresolvable, whose two
\* problems stand in the order of the records, which is not the catalog's
C1_Witness ==
    /\ report # Nil
    /\ Len(resourceProblems) = 3
    /\ Len(Deref(report).Problems) = 2
    /\ Deref(report).Problems[1] = ProblemMaxedOutHPAs
    /\ Deref(report).Problems[2] = ProblemPodNotReady

\* C2 as claimed: for every list of records the buckets of ByProblem(), and
\* those of BySeverity(), hold the same multiset of records as the list.
C2_PartitionAllRecords ==
    (byProblem # Nil /\ bySeverity # Nil) =>
        /\ BagOfBuckets(Deref(byProblem), resourceProblems) = BagOfSeq(resourceProblems)
        /\ BagOfBuckets(SeverityBuckets(Deref(bySeverity)), resourceProblems)
             = BagOfSeq(resourceProblems)

\* C2 amended: the buckets of ByProblem(), and those of BySeverity(), point to
\* every record whose ProblemID resolves in the catalog exactly once and to no
\* other record, so they hold the multiset of the resolvable records.
C2_PartitionResolvable ==
    (byProblem # Nil /\ bySeverity # Nil) =>
        LET rs == resourceProblems
            byP == Deref(byProblem)
            byS == SeverityBuckets(Deref(bySeverity))
        IN  /\ \A n \in DOMAIN rs :
                  /\ Cardinality({pl \in Places(byP) : byP[pl[1]][pl[2]] = n})
                       = IF n \in Resolvable(rs) THEN 1 ELSE 0
                  /\ Cardinality({pl \in Places(byS) : byS[pl[1]][pl[2]] = n})
                       = IF n \in Resolvable(rs) THEN 1 ELSE 0
            /\ \A pl \in Places(byP) : byP[pl[1]][pl[2]] \in DOMAIN rs
            /\ \A pl \in Places(byS) : byS[pl[1]][pl[2]] \in DOMAIN rs
            /\ BagOfBuckets(byP, rs) = BagOfSeq(ResolvableRecords(rs))
            /\ BagOfBuckets(byS, rs) = BagOfSeq(ResolvableRecords(rs))

\* both indices derived from a list with two equal resolvable records and one
\* record whose ID is not in the catalog
C2_Witness ==
    /\ byProblem # Nil
    /\ bySeverity # Nil
    /\ Len(resourceProblems) = 3
    /\ resourceProblems[1] = resourceProblems[3]
    /\ resourceProblems[1].ProblemID = "PodNotReady"
    /\ resourceProblems[2].ProblemID = "Unknown"
    /\ DOMAIN Deref(byProblem) = {"PodNotReady"}

C4_SeverityBuckets ==
    bySeverity # Nil =>
        LET rs == resourceProblems
            sev == Deref(bySeverity)
        IN  /\ DOMAIN sev = {SeverityError, SeverityWarning}
            /\ \A s \in DOMAIN sev : \A id \in DOMAIN sev[s] :
                  /\ \A k \in DOMAIN sev[s][id] :
                        /\ sev[s][id][k] \in DOMAIN rs
                        /\ rs[sev[s][id][k]].ProblemID = id
                        /\ rs[sev[s][id][k]].Warning = (s = SeverityWarning)
                  /\ \A k, l \in DOMAIN sev[s][id] : k < l => sev[s][id][k] < sev[s][id][l]

\* the Error bucket is present and empty while one Warning list holds two records
C4_Witness ==
    /\ bySeverity # Nil
    /\ SeverityError \in DOMAIN Deref(bySeverity)
    /\ DOMAIN Deref(bySeverity)[SeverityError] = {}
    /\ \E id \in DOMAIN Deref(bySeverity)[SeverityWarning] :
          Len(Deref(bySeverity)[SeverityWarning][id]) = 2

(***************************************************************************)
(* Properties of Run (Spec).                                               *)
(***************************************************************************)
RunEnded == pc \in {"returned", "exited", "panicked"}

\* C5: a run whose snapshots were fetched ends with exit status 0 exactly when
\* the scan produced no record and with exit status 1 exactly when it produced
\* one or more; status 1 is set only after the report has been printed.
C5_ExitStatus ==
    /\ (RunEnded /\ err = "") =>
          /\ (exitStatus = Ptr(0)) <=> (Len(resourceProblems) = 0)
          /\ (exitStatus = Ptr(1)) <=> (Len(resourceProblems) > 0)
    /\ exitStatus = Ptr(1) => (pc = "exited" /\ stdout.groups # {} /\ stdout.help # {})

\* C6: when the client, the pods or the autoscalers cannot be obtained, Run has
\* returned that error wrapped with its context and takes no further step: no
\* detector was invoked, no record collected, no report built, nothing printed,
\* no exit status set.  The pods are not scanned before the autoscalers are
\* listed.
C6_FetchFailureAborts ==
    /\ pc \in {"getKubeClient", "listPods", "listHPAs"} =>
          (detectorCalls = 0 /\ resourceProblems = <<>> /\ i = 1 /\ j = 1)
    /\ err # "" =>
          /\ pc = "returned"
          /\ ~ENABLED Next
          /\ err \in { Wrap("no kubeconfig",
                            "failed to get kubernetes client (is the devenv running?)"),
                       Wrap("connection refused", "failed to list pods"),
                       Wrap("connection refused", "failed to list hpas") }
          /\ detectorCalls = 0
          /\ resourceProblems = <<>>
          /\ i = 1 /\ j = 1
          /\ report = Nil /\ byProblem = Nil /\ bySeverity = Nil
          /\ stdout = NoOutput
          /\ exitStatus = Nil

\* listing the autoscalers failed after pods with problems had been listed
C6_Witness ==
    /\ err = Wrap("connection refused", "failed to list hpas")
    /\ pc = "returned"
    /\ Len(pods) = 2
    /\ \A n \in DOMAIN pods : getPodsWithProblems(pods[n], cfg).is

(***************************************************************************)
(* Properties of the scanner and the detectors (SpecScan).                 *)
(***************************************************************************)
\* the records a scan is to return: one per enabled entry whose detector
\* reports isOccurring, in catalog order
ExpectedRecords(enabled, o, type) ==
    LET Occurs(problem) == Detector(problem, o, cfg).isOccurring
        hit == SelectSeq(enabled, Occurs)
    IN  [k \in DOMAIN hit |->
            [Name |-> o.Namespace \o "/" \o o.Name,
             Owner |-> IF \E l \in o.Labels : l[1] = "reporting_team"
                       THEN (CHOOSE l \in o.Labels : l[1] = "reporting_team")[2]
                       ELSE "",
             Type |-> type,
             ProblemID |-> hit[k].ID,
             ProblemDetails |-> Detector(hit[k], o, cfg).reason,
             Warning |-> Detector(hit[k], o, cfg).warning]]

\* C7: the scan of a resource runs every entry enabled for its kind and
\* returns exactly one record per entry that reports isOccurring, in catalog
\* order, each with the name, owner, type, problem ID, detail and warning flag.
C7_ScanEmitsOnePerOccurring ==
    /\ pc = "scan.pod" =>
          /\ ~Deref(ret).panic
          /\ Deref(ret).calls = Len(enabledPodProblems)
          /\ Deref(ret).problems = ExpectedRecords(enabledPodProblems, Deref(obj), "pod")
          /\ Deref(ret).is = (Len(Deref(ret).problems) > 0)
    /\ pc = "scan.hpa" =>
          /\ ~Deref(ret).panic
          /\ Deref(ret).calls = Len(enabledHPAProblems)
          /\ Deref(ret).problems = ExpectedRecords(enabledHPAProblems, Deref(obj), "HPA")
          /\ Deref(ret).is = (Len(Deref(ret).problems) > 0)

PodKindIDs ==
    {"PodCrashLoopBackOff", "PodNotReady", "PodImagePullBackOff", "PodOOMKilled",
     "PodPending", "HighRestarts"}

\* C8: a pod detector handed an autoscaler, and the autoscaler detector handed
\* a pod, return isOccurring = FALSE and do not panic.
C8_WrongKindNotOccurring ==
    pc = "scan.detected" =>
        LET call == Deref(ret)
            wrongKind == \/ call.problem \in PodKindIDs /\ IsHPA(Deref(obj))
                         \/ call.problem = "MaxedOutHPAs" /\ IsPod(Deref(obj))
        IN  wrongKind => (~call.result.isOccurring /\ ~call.result.panic)

\* the not-ready detector was handed an autoscaler, and the autoscaler
\* detector a pod with a container status
C8_Witness ==
    /\ pc = "scan.detected"
    /\ \/ Deref(ret).problem = "PodNotReady" /\ IsHPA(Deref(obj))
       \/ /\ Deref(ret).problem = "MaxedOutHPAs"
          /\ IsPod(Deref(obj))
          /\ Len(Deref(obj).Status.ContainerStatuses) > 0
    /\ ~Deref(ret).result.isOccurring

\* the HighRestarts records among the records of a scan
HighRestartsRecords(problems) ==
    {k \in DOMAIN problems : problems[k].ProblemID = "HighRestarts"}

\* C9: the scan of a pod with a container whose restart count is >= the
\* configured threshold returns exactly one HighRestarts record, an Error
\* (Warning = FALSE); the scan of a pod with no such container returns none.
C9_HighRestartsError ==
    pc = "scan.pod" =>
        LET css == Deref(obj).Status.ContainerStatuses
            reached == \E n \in DOMAIN css :
                          GeInt64(css[n].RestartCount, cfg.RestartThreshold)
            problems == Deref(ret).problems
        IN  /\ Cardinality(HighRestartsRecords(problems)) = IF reached THEN 1 ELSE 0
            /\ \A k \in HighRestartsRecords(problems) : ~problems[k].Warning

\* the MaxedOutHPAs records among the records of a scan
MaxedOutRecords(problems) ==
    {k \in DOMAIN problems : problems[k].ProblemID = "MaxedOutHPAs"}

OOMKilledRecords(problems) ==
    {k \in DOMAIN problems : problems[k].ProblemID = "PodOOMKilled"}

\* C11: for a pod with any number of containers in any order, when some
\* container is currently terminated with reason OOMKilled the PodOOMKilled
\* detection, and the record made of it, is an Error (Warning = FALSE); it is a
\* Warning only when no container is currently terminated with that reason and
\* some container's last termination state has it.
C11_OOMKilledSeverity ==
    /\ (pc = "scan.detected" /\ Deref(ret).problem = "PodOOMKilled" /\ IsPod(Deref(obj))) =>
          LET css == Deref(obj).Status.ContainerStatuses
              current == \E n \in DOMAIN css : CurrentlyOOMKilled(css[n])
              last == \E n \in DOMAIN css : RecentlyOOMKilled(css[n])
              r == Deref(ret).result
          IN  /\ current => (r.isOccurring /\ ~r.warning)
              /\ (r.isOccurring /\ r.warning) => (~current /\ last)
    /\ pc = "scan.pod" =>
          LET css == Deref(obj).Status.ContainerStatuses
              current == \E n \in DOMAIN css : CurrentlyOOMKilled(css[n])
              last == \E n \in DOMAIN css : RecentlyOOMKilled(css[n])
              problems == Deref(ret).problems
          IN  \A k \in OOMKilledRecords(problems) :
                  /\ current => ~problems[k].Warning
                  /\ problems[k].Warning => (~current /\ last)

\* C12: PodPending is registered for the pod kind and resolves in the catalog
\* of the report: the scan of a pod whose phase is Pending and which has a
\* container or init container with a non-nil waiting state returns a record
\* with ProblemID "PodPending" that is an Error (Warning = FALSE).  Stated of
\* the scans that return, so that a violation is about the registration alone.
C12_PodPendingRegistered ==
    (pc = "scan.pod" /\ ~Deref(ret).panic) =>
        LET pod == Deref(obj)
            css == pod.Status.ContainerStatuses
            ics == pod.Status.InitContainerStatuses
            waiting == \/ \E n \in DOMAIN css : css[n].State.Waiting # Nil
                       \/ \E n \in DOMAIN ics : ics[n].State.Waiting # Nil
            problems == Deref(ret).problems
        IN  (pod.Status.Phase = PodPending /\ waiting) =>
                /\ ProblemPodPending \in Range(enabledPodProblems)
                /\ "PodPending" \in CatalogIDs
                /\ \E k \in DOMAIN problems :
                      /\ problems[k].ProblemID = "PodPending"
                      /\ ~problems[k].Warning

\* the container statuses of a pod in the order the detectors walk them:
\* the regular containers, then the init containers
AllStatuses(pod) == pod.Status.ContainerStatuses \o pod.Status.InitContainerStatuses

\* C13: for a pod with a container or init container whose waiting reason is
\* "CrashLoopBackOff", the PodCrashLoopBackOff detector does not fail and
\* returns isOccurring = TRUE as an Error (warning = FALSE), whether or not
\* that container has a last termination state; the detail carries the last
\* termination message when there is one.
C13_CrashLoopNeverFails ==
    (pc = "scan.detected" /\ Deref(ret).problem = "PodCrashLoopBackOff" /\ IsPod(Deref(obj))) =>
        LET all == AllStatuses(Deref(obj))
            looping == {n \in DOMAIN all :
                           /\ all[n].State.Waiting # Nil
                           /\ Deref(all[n].State.Waiting).Reason = "CrashLoopBackOff"}
            first == FirstIndex(looping)
            r == Deref(ret).result
        IN  looping # {} =>
                /\ ~r.panic
                /\ r.isOccurring
                /\ ~r.warning
                /\ all[first].LastTerminationState.Terminated # Nil =>
                      r.reason =
                          (IF first <= Len(Deref(obj).Status.ContainerStatuses)
                           THEN "Container " ELSE "Init container ")
                          \o all[first].Name \o " in a crash loop backoff state: "
                          \o Deref(all[first].LastTerminationState.Terminated).Message

(***************************************************************************)
(* Properties of Run end to end (Spec).                                    *)
(***************************************************************************)
\* the keys (severity, id) of the buckets of BySeverity()
SeverityKeys(sev) == UNION { {s} \X DOMAIN sev[s] : s \in DOMAIN sev }

\* C14: every record the scan of any listed snapshot produces carries a
\* ProblemID of the report's catalog; in the report built from the scan every
\* Problem has a record, every key of ByProblem() and of both buckets of
\* BySeverity() is found by GetProblemByID, and every record is listed under
\* exactly one (severity, id) key, once; what is printed has one group per
\* key, none skipped, with one line per record of the key.
C14_ScanRecordsResolve ==
    /\ \A n \in DOMAIN resourceProblems : resourceProblems[n].ProblemID \in CatalogIDs
    /\ report # Nil =>
          LET rep == Deref(report)
              rs == resourceProblems
              byP == Deref(byProblem)
              sev == Deref(bySeverity)
              byS == SeverityBuckets(sev)
          IN  /\ rep.Resources = rs
              /\ \A a \in DOMAIN rep.Problems :
                    \E n \in DOMAIN rs : rs[n].ProblemID = rep.Problems[a].ID
              /\ \A n \in DOMAIN rs : GetProblemByID(rep, rs[n].ProblemID) # 0
              /\ \A id \in DOMAIN byP : GetProblemByID(rep, id) # 0
              /\ \A k \in SeverityKeys(sev) : GetProblemByID(rep, k[2]) # 0
              /\ \A n \in DOMAIN rs :
                    Cardinality({pl \in Places(byS) : byS[pl[1]][pl[2]] = n}) = 1
    /\ pc \in {"exit", "exited"} =>
          LET rep == Deref(report)
              rs == resourceProblems
              sev == Deref(bySeverity)
          IN  /\ Cardinality(stdout.groups) = Cardinality(SeverityKeys(sev))
              /\ Cardinality(stdout.help) = Cardinality(DOMAIN Deref(byProblem))
              /\ \A k \in SeverityKeys(sev) :
                    \E g \in stdout.groups :
                        /\ g.color = (IF k[1] = SeverityWarning THEN "HiYellow" ELSE "HiRed")
                        /\ g.title = k[2] \o ": "
                                       \o rep.Problems[GetProblemByID(rep, k[2])].ShortDescription
                        /\ g.occurrences = Len(sev[k[1]][k[2]])
                        /\ g.lines = [l \in DOMAIN sev[k[1]][k[2]] |->
                                         resourceMessage(rs[sev[k[1]][k[2]][l]])]

\* a run has printed its report and exited: a pod record and an autoscaler
\* record, groups of both severities, at least three problems
C14_Witness ==
    /\ pc = "exited"
    /\ \E n \in DOMAIN resourceProblems : resourceProblems[n].Type = "HPA"
    /\ \E n \in DOMAIN resourceProblems : resourceProblems[n].Type = "pod"
    /\ Len(Deref(report).Problems) >= 3
    /\ DOMAIN Deref(bySeverity)[SeverityError] # {}
    /\ DOMAIN Deref(bySeverity)[SeverityWarning] # {}
    /\ Cardinality(stdout.groups) >= 3

====
